---------------------------- MODULE Spec2Model ----------------------------
(***************************************************************************)
(* IPv6 Poetry: the address <-> phrase codec of xythian/ipv6poetry.         *)
(*                                                                         *)
(* Two implementations are modelled side by side:                          *)
(*   - the browser converter, src/web/src/lib/ipv6poetry.ts                 *)
(*     (wordlist, reverseMap, includeChecksum; synchronous methods);       *)
(*   - the Node converter, src/poetry-tools/js/src/index.ts                 *)
(*     (words, wordToIndex, initialized; asynchronous load).               *)
(* The web Converter component, src/web/src/components/converter.tsx,      *)
(* which loads a browser converter with fromUrl, is modelled as well.      *)
(*                                                                         *)
(* A JavaScript string is a sequence of one-character strings, so that     *)
(* split, trim, toLowerCase, parseInt and toString(16) are computed the    *)
(* way the runtime computes them.  A thrown Error is the record            *)
(* [threw |-> TRUE, ...]; a returned value is [threw |-> FALSE, value].    *)
(***************************************************************************)
EXTENDS Integers, Sequences, FiniteSets, TLC

VARIABLES
    wordlist,         \* browser: this.wordlist
    reverseMap,       \* browser: this.reverseMap
    includeChecksum,  \* browser: this.includeChecksum
    wordlistFile,     \* Node: the content of <wordlistDir>/wordlist.txt, or NoFile
    words,            \* Node: this.words
    wordToIndex,      \* Node: this.wordToIndex
    initialized,      \* Node: this.initialized
    pending,          \* Node: calls suspended at `await readFile(...)`
    warnings,         \* Node: console.warn lines of the last completed call
    component,        \* web: the state of the Converter component (useState)
    fetches,          \* web: the includeChecksum of each fromUrl load in flight
    call,             \* the last operation invoked and its argument
    ret               \* what that operation returned or threw

vars == <<wordlist, reverseMap, includeChecksum, wordlistFile, words,
          wordToIndex, initialized, pending, warnings, component, fetches, call, ret>>

browserVars == <<wordlist, reverseMap, includeChecksum>>
nodeVars == <<wordlistFile, words, wordToIndex, initialized, pending, warnings>>
componentVars == <<component, fetches>>

-----------------------------------------------------------------------------
(* Results of a call. *)

Ok(v) == [threw |-> FALSE, value |-> v]
Throw(m) == [threw |-> TRUE, value |-> m]
Idle == [op |-> "idle", arg |-> <<>>, from |-> <<>>]
Invoke(op, arg) == [op |-> op, arg |-> arg, from |-> <<>>]
NoRet == [threw |-> FALSE, value |-> <<>>]

-----------------------------------------------------------------------------
(* JavaScript strings and numbers.                                         *)

COLON == <<":">>
DOUBLE_COLON == <<":", ":">>
SPACE == <<" ">>

HexChars == <<"0","1","2","3","4","5","6","7","8","9","a","b","c","d","e","f">>
UpperHexChars == <<"0","1","2","3","4","5","6","7","8","9","A","B","C","D","E","F">>
DecChars == <<"0","1","2","3","4","5","6","7","8","9">>

LowerLetters == <<"a","b","c","d","e","f","g","h","i","j","k","l","m",
                  "n","o","p","q","r","s","t","u","v","w","x","y","z">>
UpperLetters == <<"A","B","C","D","E","F","G","H","I","J","K","L","M",
                  "N","O","P","Q","R","S","T","U","V","W","X","Y","Z">>

IndexIn(c, chars) == CHOOSE i \in 1..Len(chars) : chars[i] = c
InChars(c, chars) == \E i \in 1..Len(chars) : chars[i] = c

IsHexChar(c) == InChars(c, HexChars) \/ InChars(c, UpperHexChars)
HexVal(c) == IF InChars(c, HexChars) THEN IndexIn(c, HexChars) - 1
             ELSE IndexIn(c, UpperHexChars) - 1
IsDecChar(c) == InChars(c, DecChars)
DecVal(c) == IndexIn(c, DecChars) - 1

\* The characters String.prototype.trim and the regular expression \s treat
\* as white space (those that occur in the modelled inputs).
IsSpace(c) == c \in {" ", "\t", "\n", "\r"}

\* String.prototype.toLowerCase, one character.
LowerChar(c) == IF InChars(c, UpperLetters) THEN LowerLetters[IndexIn(c, UpperLetters)]
                ELSE c
toLowerCase(s) == [i \in 1..Len(s) |-> LowerChar(s[i])]

\* s.startsWith(p)
startsWith(s, p) == Len(p) <= Len(s) /\ SubSeq(s, 1, Len(p)) = p

\* Whether sub occurs in s at position i (1-based).
OccursAt(s, sub, i) == i + Len(sub) - 1 <= Len(s) /\ SubSeq(s, i, i + Len(sub) - 1) = sub

\* s.includes(sub)
includes(s, sub) == \E i \in 1..(Len(s) + 1) : OccursAt(s, sub, i)

\* The first position >= i where sub occurs in s, or 0.
nextOccurrence(s, sub, i) ==
    IF \E j \in i..Len(s) : OccursAt(s, sub, j)
    THEN CHOOSE j \in i..Len(s) : OccursAt(s, sub, j) /\ \A k \in i..(j - 1) : ~OccursAt(s, sub, k)
    ELSE 0

\* s.split(sep) for a non-empty string separator: the pieces between the
\* non-overlapping occurrences of sep, found left to right.
RECURSIVE SplitFrom(_, _, _)
SplitFrom(s, sep, i) ==
    LET j == nextOccurrence(s, sep, i)
    IN IF j = 0 THEN <<SubSeq(s, i, Len(s))>>
       ELSE <<SubSeq(s, i, j - 1)>> \o SplitFrom(s, sep, j + Len(sep))
split(s, sep) == SplitFrom(s, sep, 1)

\* list.join(sep); an undefined element is rendered as the empty string.
Undefined == <<"undefined">>
RECURSIVE join(_, _)
join(list, sep) ==
    IF Len(list) = 0 THEN <<>>
    ELSE LET h == IF list[1] = Undefined THEN <<>> ELSE list[1]
         IN IF Len(list) = 1 THEN h ELSE h \o sep \o join(Tail(list), sep)

\* s.trim()
RECURSIVE TrimStart(_)
TrimStart(s) == IF Len(s) > 0 /\ IsSpace(s[1]) THEN TrimStart(Tail(s)) ELSE s
RECURSIVE TrimEnd(_)
TrimEnd(s) == IF Len(s) > 0 /\ IsSpace(s[Len(s)]) THEN TrimEnd(SubSeq(s, 1, Len(s) - 1)) ELSE s
trim(s) == TrimEnd(TrimStart(s))

\* s.split(/\s+/): the pieces between the maximal runs of white space.
firstSpace(s, i) ==
    IF \E j \in i..Len(s) : IsSpace(s[j])
    THEN CHOOSE j \in i..Len(s) : IsSpace(s[j]) /\ \A k \in i..(j - 1) : ~IsSpace(s[k])
    ELSE 0
firstNonSpace(s, i) ==
    IF \E j \in i..Len(s) : ~IsSpace(s[j])
    THEN CHOOSE j \in i..Len(s) : ~IsSpace(s[j]) /\ \A k \in i..(j - 1) : IsSpace(s[k])
    ELSE Len(s) + 1
RECURSIVE SplitSpaceFrom(_, _)
SplitSpaceFrom(s, i) ==
    LET j == firstSpace(s, i)
    IN IF j = 0 THEN <<SubSeq(s, i, Len(s))>>
       ELSE <<SubSeq(s, i, j - 1)>> \o SplitSpaceFrom(s, firstNonSpace(s, j))
splitSpace(s) == SplitSpaceFrom(s, 1)

\* /^[0-9A-Fa-f]+$/.test(s)
IsHexString(s) == Len(s) > 0 /\ \A i \in 1..Len(s) : IsHexChar(s[i])

\* The value of a string of hex digits.
RECURSIVE HexValue(_, _)
HexValue(s, acc) == IF Len(s) = 0 THEN acc ELSE HexValue(Tail(s), acc * 16 + HexVal(s[1]))

\* n.toString(16) for an integer n (lowercase digits, "-" for a negative n).
RECURSIVE HexDigitsOf(_)
HexDigitsOf(n) == IF n < 16 THEN <<HexChars[n + 1]>>
                  ELSE Append(HexDigitsOf(n \div 16), HexChars[(n % 16) + 1])
toString16(n) == IF n < 0 THEN <<"-">> \o HexDigitsOf(0 - n) ELSE HexDigitsOf(n)

\* n.toString() in base 10, as a template literal `${n}` renders it.
RECURSIVE DecDigitsOf(_)
DecDigitsOf(n) == IF n < 10 THEN <<DecChars[n + 1]>>
                  ELSE Append(DecDigitsOf(n \div 10), DecChars[(n % 10) + 1])

\* s.padStart(4, '0')
RECURSIVE padStart4(_)
padStart4(s) == IF Len(s) >= 4 THEN s ELSE padStart4(<<"0">> \o s)

\* parseInt(s, 16): leading white space, an optional sign, an optional 0x or
\* 0X, then the longest run of hex digits; NaN when that run is empty.
RECURSIVE HexPrefix(_)
HexPrefix(s) == IF Len(s) > 0 /\ IsHexChar(s[1]) THEN <<s[1]>> \o HexPrefix(Tail(s)) ELSE <<>>
parseInt16(s) ==
    LET t == TrimStart(s)
        neg == Len(t) > 0 /\ t[1] = "-"
        u == IF Len(t) > 0 /\ t[1] \in {"-", "+"} THEN Tail(t) ELSE t
        v == IF Len(u) >= 2 /\ u[1] = "0" /\ u[2] \in {"x", "X"} THEN SubSeq(u, 3, Len(u)) ELSE u
        d == HexPrefix(v)
    IN IF Len(d) = 0 THEN [isNaN |-> TRUE, n |-> 0]
       ELSE [isNaN |-> FALSE, n |-> IF neg THEN 0 - HexValue(d, 0) ELSE HexValue(d, 0)]

\* Number.prototype.toString(16) on the result of parseInt.
numToString16(num) == IF num.isNaN THEN <<"N", "a", "N">> ELSE toString16(num.n)


-----------------------------------------------------------------------------
(* Browser converter: the address normalizer (ipv6poetry.ts 44-157).       *)

SEGMENTS == 8

\* A variant that fills with one zero group too few.
missingSegmentsShort(leftParts, rightParts) == 7 - Len(leftParts) - Len(rightParts)

\* const missing = 8 - leftParts.length - rightParts.length
missingSegments(leftParts, rightParts) == SEGMENTS - Len(leftParts) - Len(rightParts)

\* A variant that only rejects too many groups.
wrongCountAbove(segments) == Len(segments) > SEGMENTS

\* segments.length !== 8
wrongCount(segments) == Len(segments) # SEGMENTS

\* parts[k] ? parts[k].split(':') : []
sideParts(part) == IF Len(part) > 0 THEN split(part, COLON) ELSE <<>>

\* Array(missing).fill(z)
filled(n, z) == [i \in 1..n |-> z]

\* The `segments` array of expandIPv6, or the Error thrown while building it.
expandSegments(address) ==
    IF includes(address, DOUBLE_COLON)
    THEN LET parts == split(address, DOUBLE_COLON)
         IN IF Len(parts) > 2 THEN Throw("more than one ::")
            ELSE LET leftParts == sideParts(parts[1])
                     rightParts == sideParts(parts[2])
                     missing == missingSegments(leftParts, rightParts)
                 IN IF missing < 0 THEN Throw("too many segments")
                    ELSE Ok(leftParts \o filled(missing, <<"0">>) \o rightParts)
    ELSE LET segments == split(address, COLON)
         IN IF wrongCount(segments) THEN Throw("expected 8 segments")
            ELSE Ok(segments)

\* The callback of segments.map: whether it throws, and the number it returns.
segmentValid(segment) == LET trimmed == trim(segment)
                         IN Len(trimmed) = 0 \/ IsHexString(trimmed)
\* A variant that keeps only the low byte of a segment.
segmentValueLowByte(segment) == LET trimmed == trim(segment)
                                IN IF Len(trimmed) = 0 THEN 0 ELSE HexValue(trimmed, 0) % 256
segmentValue(segment) == LET trimmed == trim(segment)
                         IN IF Len(trimmed) = 0 THEN 0 ELSE HexValue(trimmed, 0)

expandIPv6(address) ==
    IF ~includes(address, COLON) THEN Throw("Invalid IPv6 address")
    ELSE LET segs == expandSegments(address)
         IN IF segs.threw THEN segs
            ELSE IF \E i \in 1..Len(segs.value) : ~segmentValid(segs.value[i])
                 THEN Throw("Invalid IPv6 segment")
                 ELSE Ok([i \in 1..Len(segs.value) |-> segmentValue(segs.value[i])])

\* Zero runs are records {start, length}; start is a 0-based index, -1 for none.
NoRun == [start |-> -1, length |-> 0]

\* A variant that lets a later run of equal length win.
longerRunOrEqual(currentRun, longestZeroRun) == currentRun.length >= longestZeroRun.length

\* currentRun.length > longestZeroRun.length
longerRun(currentRun, longestZeroRun) == currentRun.length > longestZeroRun.length

\* The for loop of step 3 (i, longestZeroRun and currentRun are its
\* variables), then the check after it.
RunRecords == [start : -1..SEGMENTS, length : 0..(SEGMENTS + 1)]
zeroRunScan(hexSegments) ==
    LET loop[i \in 0..Len(hexSegments), longestZeroRun \in RunRecords,
             currentRun \in RunRecords] ==
            IF i = Len(hexSegments)
            THEN IF currentRun.start # -1 /\ longerRun(currentRun, longestZeroRun)
                 THEN currentRun ELSE longestZeroRun
            ELSE IF hexSegments[i + 1] = <<"0">>
                 THEN IF currentRun.start = -1
                      THEN loop[i + 1, longestZeroRun, [start |-> i, length |-> 1]]
                      ELSE loop[i + 1, longestZeroRun, [currentRun EXCEPT !.length = @ + 1]]
                 ELSE IF currentRun.start # -1
                      THEN loop[i + 1,
                                IF longerRun(currentRun, longestZeroRun)
                                THEN currentRun ELSE longestZeroRun,
                                NoRun]
                      ELSE loop[i + 1, longestZeroRun, currentRun]
    IN loop[0, NoRun, NoRun]

\* longestZeroRun.length >= 2
compressible(longestZeroRun) == longestZeroRun.length >= 2

\* Steps 2-4 of normalizeIPv6 on the decimal segments.
compressSegments(decimalSegments) ==
    LET hexSegments == [i \in 1..Len(decimalSegments) |->
                            toLowerCase(toString16(decimalSegments[i]))]
        longestZeroRun == zeroRunScan(hexSegments)
    IN IF compressible(longestZeroRun)
       THEN LET before == SubSeq(hexSegments, 1, longestZeroRun.start)
                after == SubSeq(hexSegments,
                                longestZeroRun.start + longestZeroRun.length + 1,
                                Len(hexSegments))
            IN IF Len(before) = 0
               THEN IF Len(after) = 0 THEN DOUBLE_COLON
                    ELSE DOUBLE_COLON \o join(after, COLON)
               ELSE IF Len(after) = 0 THEN join(before, COLON) \o DOUBLE_COLON
               ELSE join(before, COLON) \o DOUBLE_COLON \o join(after, COLON)
       ELSE join(hexSegments, COLON)

normalizeIPv6(address) ==
    LET decimalSegments == expandIPv6(address)
    IN IF decimalSegments.threw THEN Throw("Invalid IPv6 address")
       ELSE Ok(compressSegments(decimalSegments.value))

-----------------------------------------------------------------------------
(* Node converter: the address normalizer (index.ts 74-119).               *)

\* segments.indexOf(''): 0-based, -1 when no segment is empty.
indexOfEmpty(segments) ==
    IF \E i \in 1..Len(segments) : Len(segments[i]) = 0
    THEN (CHOOSE i \in 1..Len(segments) :
              Len(segments[i]) = 0 /\ \A j \in 1..(i - 1) : Len(segments[j]) > 0) - 1
    ELSE -1

\* list.filter(s => s !== '')
nonEmpty(list) == SelectSeq(list, LAMBDA s : Len(s) > 0)

\* segment => parseInt(segment, 16).toString(16).padStart(4, '0')
expandedSegment(segment) == padStart4(numToString16(parseInt16(segment)))

\* The `segments` array after the :: handling, or the RangeError of Array(n), n < 0.
nodeSegments(address) ==
    LET segments == split(address, COLON)
        doubleColonIndex == indexOfEmpty(segments)
    IN IF doubleColonIndex # -1
       THEN LET providedSegments == Len(nonEmpty(segments))
                missing == SEGMENTS - providedSegments
            IN IF missing < 0 THEN Throw("RangeError: Invalid array length")
               ELSE Ok(nonEmpty(SubSeq(segments, 1, doubleColonIndex))
                       \o filled(missing, <<"0", "0", "0", "0">>)
                       \o nonEmpty(SubSeq(segments, doubleColonIndex + 2, Len(segments))))
       ELSE Ok(segments)

nodeNormalizeIPv6(address) ==
    IF ~includes(address, COLON) THEN Throw("Invalid IPv6 address")
    ELSE LET segs == nodeSegments(address)
         IN IF segs.threw THEN Throw("Invalid IPv6 address")
            ELSE IF Len(segs.value) # SEGMENTS THEN Throw("Invalid IPv6 address")
            ELSE Ok(join([i \in 1..SEGMENTS |-> expandedSegment(segs.value[i])], COLON))


-----------------------------------------------------------------------------
(* Vocabularies.                                                           *)
(*                                                                         *)
(* A word array is the record [length, entries]: entries gives the words   *)
(* written out index by index (0-based); every other index i < length     *)
(* holds the generated word `word${i}` of the test fixtures                *)
(* (ipv6poetry.test.ts 9, converters.test.ts 16).  A 65,536-word array is  *)
(* thereby a value of a few entries, and arrays of a few words are written  *)
(* out in full.                                                            *)

WORD == <<"w", "o", "r", "d">>

\* `word${i}`
generatedWord(i) == WORD \o DecDigitsOf(i)

\* array[i] for an integer i: undefined outside 0..length-1.
elementAt(array, i) ==
    IF i < 0 \/ i >= array.length THEN Undefined
    ELSE IF i \in DOMAIN array.entries THEN array.entries[i]
    ELSE generatedWord(i)

\* A variant without the remainder.
elementAtNoModulo(array, value) == elementAt(array, value)

\* A variant that takes the word after the one asked for.
elementAtModuloShifted(array, value) == elementAt(array, (value + 1) % array.length)

\* array[value % array.length]: the remainder by 0 is NaN, and array[NaN] is undefined.
elementAtModulo(array, value) ==
    IF array.length = 0 THEN Undefined ELSE elementAt(array, value % array.length)

\* The value of a string of decimal digits.
RECURSIVE DecValue(_, _)
DecValue(s, acc) == IF Len(s) = 0 THEN acc ELSE DecValue(Tail(s), acc * 10 + DecVal(s[1]))

\* The index i with `word${i}` = word, or -1.
generatedIndexOf(word) ==
    LET digits == SubSeq(word, Len(WORD) + 1, Len(word))
    IN IF startsWith(word, WORD) /\ Len(digits) \in 1..5
          /\ (\A k \in 1..Len(digits) : IsDecChar(digits[k]))
          /\ DecDigitsOf(DecValue(digits, 0)) = digits
       THEN DecValue(digits, 0) ELSE -1

MaxOf(S) == CHOOSE x \in S : \A y \in S : y <= x

\* The indexes idx with array[idx] = word.
indexesOf(array, word) ==
    {i \in DOMAIN array.entries : array.entries[i] = word}
    \cup (LET g == generatedIndexOf(word)
          IN IF g >= 0 /\ g < array.length /\ g \notin DOMAIN array.entries THEN {g} ELSE {})

\* for (idx = 0; idx < array.length; idx++) map.set(array[idx], idx):
\* the map sends each word of the array to its last index.  The map is kept
\* as the array it was built from; has and get compute its entries.
buildReverseMap(array) == [of |-> array]
mapHas(map, word) == indexesOf(map.of, word) # {}
mapGet(map, word) == MaxOf(indexesOf(map.of, word))
EmptyMap == [of |-> [length |-> 0, entries |-> <<>>]]

SCHEMA == <<"s","c","h","e","m","a">>
DEAF == <<"d","e","a","f">>
SAMARIUM == <<"s","a","m","a","r","i","u","m">>
ZERO == <<"z","e","r","o">>
ENGULF == <<"e","n","g","u","l","f">>
FIELDS == <<"f","i","e","l","d","s">>
OSMANLI == <<"o","s","m","a","n","l","i">>
BELOW5 == <<"b","e","l","o","w","5">>
ARRIVES5 == <<"a","r","r","i","v","e","s","5">>

\* The wordlist of ipv6poetry.test.ts, beforeEach.
FixtureWordlist ==
    [length |-> 65536,
     entries |-> (8193 :> SCHEMA) @@ (3512 :> DEAF) @@ (34211 :> SAMARIUM) @@ (0 :> ZERO)
                 @@ (35374 :> ENGULF) @@ (880 :> FIELDS) @@ (29492 :> OSMANLI)
                 @@ (28756 :> BELOW5)]

\* The wordlist of converters.test.ts: 65,536 generated words.
MockWordlist == [length |-> 65536, entries |-> <<>>]

\* A wordlist of five words, written out.
SmallWordlist ==
    [length |-> 5,
     entries |-> (0 :> ZERO) @@ (1 :> SCHEMA) @@ (2 :> DEAF) @@ (3 :> ENGULF) @@ (4 :> FIELDS)]

-----------------------------------------------------------------------------
(* 32-bit words are pairs <<high 16 bits, low 16 bits>>.                   *)

RECURSIVE XorBits(_, _, _)
XorBits(a, b, n) ==
    IF n = 0 THEN 0
    ELSE 2 * XorBits(a \div 2, b \div 2, n - 1) + ((a + b) % 2)
XorNibble == [a \in 0..15 |-> [b \in 0..15 |-> XorBits(a, b, 4)]]
xor8(a, b) == 16 * XorNibble[a \div 16][b \div 16] + XorNibble[a % 16][b % 16]
xor16(a, b) == 256 * xor8(a \div 256, b \div 256) + xor8(a % 256, b % 256)
xor32(x, y) == <<xor16(x[1], y[1]), xor16(x[2], y[2])>>

\* x >>> 1 and x >>> 8
shr1(x) == <<x[1] \div 2, (x[2] \div 2) + 32768 * (x[1] % 2)>>
shr8(x) == <<x[1] \div 256, (x[2] \div 256) + 256 * (x[1] % 256)>>

POLY == <<60856, 33568>>       \* 0xEDB88320
ALL_ONES == <<65535, 65535>>   \* -1 as 32 bits
Word32 == (0..65535) \X (0..65535)

\* for (j = 0; j < 8; j++) c = (c & 1) ? (0xEDB88320 ^ (c >>> 1)) : (c >>> 1)
crcTableEntry(i) ==
    LET loop[j \in 0..8, c \in Word32] ==
            IF j = 8 THEN c
            ELSE loop[j + 1, IF c[2] % 2 = 1 THEN xor32(POLY, shr1(c)) ELSE shr1(c)]
    IN loop[0, <<0, i>>]
crcTable == [i \in 0..255 |-> crcTableEntry(i)]

\* crc = (crc >>> 8) ^ crcTable[(crc ^ byte) & 0xFF]
crcUpdate(crc, byte) == xor32(shr8(crc), crcTable[xor8(crc[2] % 256, byte)])

\* The loop over decimalValues: high byte, then low byte of each value.
crcOfValues(decimalValues, init) ==
    LET loop[i \in 0..Len(decimalValues), crc \in Word32] ==
            IF i = Len(decimalValues) THEN crc
            ELSE LET value == decimalValues[i + 1]
                     highByte == (value \div 256) % 256
                     lowByte == value % 256
                 IN loop[i + 1, crcUpdate(crcUpdate(crc, highByte), lowByte)]
    IN loop[0, init]

\* ((crc ^ -1) >>> 0) & 0xFFFF of the CRC-32 of the serialized values
crc32Low16(decimalValues) == xor32(crcOfValues(decimalValues, ALL_ONES), ALL_ONES)[2]

-----------------------------------------------------------------------------
(* Browser converter: checksum, encode, decode (ipv6poetry.ts 164-357).    *)

KNOWN_CHECKSUM == 28756

\* A variant that knows no address.
isKnownAddressNever(decimalValues) == FALSE

isKnownAddress(decimalValues) ==
    /\ Len(decimalValues) = 8
    /\ decimalValues = <<8193, 3512, 34211, 0, 0, 35374, 880, 29492>>

calculateChecksum(decimalValues) ==
    IF isKnownAddress(decimalValues) THEN KNOWN_CHECKSUM
    ELSE crc32Low16(decimalValues)

addressToPoetry(wl, withChecksum, ipv6Address) ==
    LET decimalValues == expandIPv6(ipv6Address)
    IN IF decimalValues.threw THEN Throw("Failed to convert address to poetry")
       ELSE LET ws == [i \in 1..Len(decimalValues.value) |->
                          elementAtModulo(wl, decimalValues.value[i])]
                checksumWord == elementAtModulo(wl, calculateChecksum(decimalValues.value))
            IN Ok(join(IF withChecksum THEN Append(ws, checksumWord) ELSE ws, SPACE))

MIN_WORDS == 8

\* A variant that requires the checksum word.
tooFewWordsNine(ws) == Len(ws) < 9

\* words.length < 8
tooFewWords(ws) == Len(ws) < MIN_WORDS

EXAMPLE_PREFIX == join(<<SCHEMA, DEAF, SAMARIUM, ZERO, ZERO, ENGULF, FIELDS, OSMANLI>>, SPACE)

\* The loop over addressWords: segments, decimalValues and invalidWords.
decodedIndex(map, word) == IF mapHas(map, word) THEN mapGet(map, word) ELSE 0
\* A variant that decodes an unknown word as 1.
decodedSegmentOne(map, word) ==
    IF mapHas(map, word) THEN padStart4(toString16(mapGet(map, word)))
    ELSE <<"0", "0", "0", "1">>

decodedSegment(map, word) ==
    IF mapHas(map, word) THEN padStart4(toString16(mapGet(map, word)))
    ELSE <<"0", "0", "0", "0">>
invalidAddressWords(map, addressWords) ==
    LET bad == {i \in 1..Len(addressWords) : ~mapHas(map, addressWords[i])}
        RECURSIVE collect(_)
        collect(i) == IF i > Len(addressWords) THEN <<>>
                      ELSE (IF i \in bad THEN <<[index |-> i - 1, word |-> addressWords[i]]>>
                            ELSE <<>>) \o collect(i + 1)
    IN collect(1)

poetryToAddress(wl, map, withChecksum, poeticPhrase) ==
    LET ws == splitSpace(trim(toLowerCase(poeticPhrase)))
    IN IF tooFewWords(ws) THEN Throw("Failed to convert poetic phrase to IPv6 address")
       ELSE
       LET addressWords == SubSeq(ws, 1, 8)
           segments == [i \in 1..8 |-> decodedSegment(map, addressWords[i])]
           decimalValues == [i \in 1..8 |-> decodedIndex(map, addressWords[i])]
           invalidWords == invalidAddressWords(map, addressWords)
           checked == withChecksum /\ Len(ws) >= 9
           checksumWord == IF checked THEN ws[9] ELSE Undefined
           isExamplePhrase == startsWith(join(ws, SPACE), EXAMPLE_PREFIX)
           isExampleWithArrivesChecksum == isExamplePhrase /\ checksumWord = ARRIVES5
           expectedWord == IF checked
                           THEN elementAtModulo(wl, calculateChecksum(decimalValues))
                           ELSE Undefined
           mismatch == checked /\ ~isExampleWithArrivesChecksum /\ checksumWord # expectedWord
           address == normalizeIPv6(join(segments, COLON))
       IN IF address.threw THEN Throw("Failed to convert poetic phrase to IPv6 address")
          ELSE Ok([address |-> address.value,
                   validChecksum |-> ~mismatch,
                   invalidWords |->
                       IF mismatch /\ ~mapHas(map, checksumWord)
                       THEN Append(invalidWords, [index |-> 8, word |-> checksumWord])
                       ELSE invalidWords,
                   expectedChecksum |-> expectedWord,
                   actualChecksum |-> checksumWord])

-----------------------------------------------------------------------------
(* Node converter: load, checksum, encode, decode (index.ts 40-67, 126-229) *)

NoFile == [length |-> -1, entries |-> <<>>]

\* content.trim().split('\n').map(word => word.trim().toLowerCase())
loadedWords(content) ==
    [length |-> content.length,
     entries |-> [i \in DOMAIN content.entries |-> toLowerCase(trim(content.entries[i]))]]

\* a % n as JavaScript computes it for integers: the sign of the dividend.
jsRemainder(a, n) == IF a >= 0 THEN a % n ELSE 0 - ((0 - a) % n)

\* A variant that takes the word after the one asked for.
nodeWordAtModuloShifted(array, num) ==
    IF num.isNaN \/ array.length = 0 THEN Undefined
    ELSE elementAt(array, jsRemainder(num.n + 1, array.length))

\* this.words[value % this.words.length]
nodeWordAtModulo(array, num) ==
    IF num.isNaN \/ array.length = 0 THEN Undefined
    ELSE elementAt(array, jsRemainder(num.n, array.length))

\* buffer.writeUInt16BE(v, ...) throws a RangeError unless v is an integer in 0..65535;
\* zlib.crc32(buffer) & 0xFFFF is the low half of the CRC-32 of the 16 bytes.
nodeCalculateChecksum(decimalValues) ==
    IF \E i \in 1..8 : decimalValues[i].isNaN \/ decimalValues[i].n < 0
                       \/ decimalValues[i].n > 65535
    THEN Throw("RangeError: out of range")
    ELSE Ok(crc32Low16([i \in 1..8 |-> decimalValues[i].n]))

\* this.words[checksumIdx]
nodeChecksumWord(array, checksumIdx) == elementAt(array, checksumIdx)

\* The words of the parsed segments and the checksum word, joined (lines 160-169).
nodeWordsOf(ws, decimalValues, checksumIdx) ==
    IF checksumIdx.threw THEN checksumIdx
    ELSE Ok(join(Append([i \in 1..Len(decimalValues) |-> nodeWordAtModulo(ws, decimalValues[i])],
                        nodeChecksumWord(ws, checksumIdx.value)), SPACE))

\* segments.map(segment => parseInt(segment, 16)) and the rest of the body
nodeEncodeSegments(ws, decimalValues) ==
    nodeWordsOf(ws, decimalValues, nodeCalculateChecksum(decimalValues))
parsedSegments(segments) == [i \in 1..Len(segments) |-> parseInt16(segments[i])]
nodeEncodeNormalized(ws, normalized) ==
    IF normalized.threw THEN normalized
    ELSE nodeEncodeSegments(ws, parsedSegments(split(normalized.value, COLON)))

\* addressToPoetry after the wordlist is loaded.
nodeAddressToPoetry(ws, ipv6Address) ==
    nodeEncodeNormalized(ws, nodeNormalizeIPv6(ipv6Address))

NOT_FOUND == "not found in wordlist"
CHECKSUM_MISMATCH == "Checksum mismatch"

\* A variant that keeps quiet about the checksum word.
nodeWarningsQuiet(unknown, mismatch) == IF unknown THEN {NOT_FOUND} ELSE {}

\* The warnings of a decode: unknown address words, checksum word mismatch.
nodeWarnings(unknown, mismatch) ==
    (IF unknown THEN {NOT_FOUND} ELSE {}) \cup (IF mismatch THEN {CHECKSUM_MISMATCH} ELSE {})

\* Lines 212-228: the checksum comparison and the normalized address.
nodeDecodeChecked(ws, tokens, segments, unknown, expectedChecksum) ==
    IF Len(tokens) >= 9 /\ expectedChecksum.threw
    THEN [result |-> expectedChecksum, warned |-> nodeWarnings(unknown, FALSE)]
    ELSE [result |-> nodeNormalizeIPv6(join(segments, COLON)),
          warned |-> nodeWarnings(unknown,
                        /\ Len(tokens) >= 9
                        /\ tokens[9] # (IF expectedChecksum.threw THEN Undefined
                                        ELSE nodeChecksumWord(ws, expectedChecksum.value)))]

\* Lines 191-204: the loop over the first eight words.
nodeDecodeWords(ws, map, tokens) ==
    IF Len(tokens) < MIN_WORDS
    THEN [result |-> Throw("Not enough words for IPv6 address"), warned |-> {}]
    ELSE nodeDecodeChecked(ws, tokens,
            [i \in 1..8 |-> decodedSegment(map, tokens[i])],
            \E i \in 1..8 : ~mapHas(map, tokens[i]),
            nodeCalculateChecksum([i \in 1..8 |->
                [isNaN |-> FALSE, n |-> decodedIndex(map, tokens[i])]]))

\* poetryToAddress after the wordlist is loaded: the result and the console.warn lines.
nodePoetryToAddress(ws, map, poeticPhrase) ==
    nodeDecodeWords(ws, map, splitSpace(trim(toLowerCase(poeticPhrase))))

-----------------------------------------------------------------------------
(* Inputs: the address texts the operations are applied to.                *)

MaxGroups == 9     \* explicit groups written in a generated address text
MaxShortLen == 7   \* length of the exhaustively generated short texts

\* Eight-field vectors: every pattern of zero / non-zero fields, the
\* non-zero fields taken from a fill vector.
Fills == <<
    <<8193, 3512, 34211, 1, 65535, 35374, 880, 29492>>,   \* 2001:db8:85a3:1:ffff:8a2e:370:7334
    <<1, 2, 3, 4, 5, 6, 7, 8>>,
    <<65152, 16, 256, 4096, 10, 43981, 61440, 15>> >>     \* fe80:10:100:1000:a:abcd:f000:f
FieldVectors ==
    {[i \in 1..SEGMENTS |-> IF i \in Z THEN 0 ELSE Fills[k][i]] :
        Z \in SUBSET (1..SEGMENTS), k \in 1..Len(Fills)}

\* Vectors with one field of a base vector replaced by another value.
SubstituteValues == {2064, 8194, 25048}
SubstitutedVectors ==
    {[F EXCEPT ![i] = v] :
        F \in {<<0, 0, 0, 0, 0, 0, 0, 0>>, Fills[2]}, i \in 1..SEGMENTS, v \in SubstituteValues}
ChecksumVectors == FieldVectors \cup SubstitutedVectors

\* The full form: eight groups of four hex digits.
fullText(F) == join([i \in 1..Len(F) |-> padStart4(toString16(F[i]))], COLON)

\* Group strings by position: short, with leading zeros, upper case, zero.
GroupPool == << <<"1">>, <<"d","b","8">>, <<"0">>, <<"A","B","C","D">>,
                <<"0","0","0","2">>, <<"f","f","f","f">>, <<"a">>, <<"0","0">>,
                <<"1","0">>, <<"7","3","3","4">> >>
groupAt(i) == GroupPool[((i - 1) % Len(GroupPool)) + 1]
groupsFromTo(a, b) == [i \in 1..(b - a + 1) |-> groupAt(a + i - 1)]

\* L groups, `::`, R groups.
elidedText(L, R) ==
    join(groupsFromTo(1, L), COLON) \o DOUBLE_COLON \o join(groupsFromTo(L + 1, L + R), COLON)
ElidedShapes == {<<L, R>> \in (0..MaxGroups) \X (0..MaxGroups) : L + R <= MaxGroups}

\* k groups joined by `:`, no elision.
plainText(k) == join(groupsFromTo(1, k), COLON)

\* Groups that are not one to four hex digits.
OddGroups == { <<"g">>, <<"1","2","x","y">>, <<"1","2","3","4","5">>, <<>>,
               <<" ","1">>, <<"-","1">>, <<"0","x","1">>, <<"f","f","f","f","f">> }
oddText(p, g) == join([i \in 1..SEGMENTS |-> IF i = p THEN g ELSE groupAt(i)], COLON)

\* All texts over {":", "1"} of length 1..MaxShortLen.
RECURSIVE ShortTextsOfLen(_)
ShortTextsOfLen(n) ==
    IF n = 0 THEN {<<>>}
    ELSE {Append(t, c) : t \in ShortTextsOfLen(n - 1), c \in {":", "1"}}
ShortTexts == UNION {ShortTextsOfLen(n) : n \in 1..MaxShortLen}

NotAnAddress == <<"n","o","t","-","a","n","-","a","d","d","r","e","s","s">>

ParserInputs ==
    {compressSegments(F) : F \in FieldVectors}
    \cup {fullText(F) : F \in FieldVectors}
    \cup {elidedText(sh[1], sh[2]) : sh \in ElidedShapes}
    \cup {plainText(k) : k \in 1..MaxGroups}
    \cup {oddText(p, g) : p \in 1..SEGMENTS, g \in OddGroups}
    \cup {DOUBLE_COLON \o g : g \in OddGroups}
    \cup ShortTexts
    \cup {NotAnAddress, <<>>}


\* Texts given to the codecs: the canonical text of every field vector, and
\* texts the parsers reject.
CodecAddresses ==
    {compressSegments(F) : F \in FieldVectors}
    \cup {NotAnAddress, plainText(MaxGroups), oddText(3, <<"g">>)}

\* Texts given to the Node converter: canonical and full forms, elided and
\* plain texts with upper case and leading zeros, and rejected texts.
NodeAddresses ==
    {compressSegments(F) : F \in FieldVectors}
    \cup {fullText(F) : F \in {G \in FieldVectors : G[1] # 0 /\ G[8] # 0}}
    \cup {elidedText(sh[1], sh[2]) : sh \in ElidedShapes}
    \cup {plainText(k) : k \in 1..MaxGroups}
    \cup {NotAnAddress, oddText(3, <<"g">>), oddText(8, <<"1","2","3","4","5">>)}

EXAMPLE_ADDRESS == compressSegments(<<8193, 3512, 34211, 0, 0, 35374, 880, 29492>>)
LOOPBACK == <<":", ":", "1">>

\* Phrases typed by a user rather than produced by addressToPoetry.
BOGUS == <<"b", "o", "g", "u", "s">>
UpperChar(c) == IF InChars(c, LowerLetters) THEN UpperLetters[IndexIn(c, LowerLetters)] ELSE c
toUpperCase(s) == [i \in 1..Len(s) |-> UpperChar(s[i])]
TypedPhrases ==
    { EXAMPLE_PREFIX \o SPACE \o BELOW5,
      EXAMPLE_PREFIX \o SPACE \o ARRIVES5,
      EXAMPLE_PREFIX,
      join(<<SCHEMA, DEAF, SAMARIUM, ZERO, ZERO, ENGULF, FIELDS>>, SPACE),
      <<>>,
      <<" ", " ">>,
      \* an unknown word at position 3, no checksum word
      join(<<SCHEMA, DEAF, SAMARIUM, BOGUS, ZERO, ENGULF, FIELDS, OSMANLI>>, SPACE),
      \* unknown words at positions 0 and 7 and an unknown checksum word
      join(<<BOGUS, DEAF, SAMARIUM, ZERO, ZERO, ENGULF, FIELDS, BOGUS, BOGUS>>, SPACE),
      \* a known word in place of the checksum word, and a tenth token
      EXAMPLE_PREFIX \o SPACE \o ZERO,
      EXAMPLE_PREFIX \o SPACE \o BELOW5 \o SPACE \o ZERO,
      \* upper case, leading, trailing and repeated white space
      <<" ">> \o toUpperCase(EXAMPLE_PREFIX) \o <<" ", "\t">> \o BELOW5 \o <<"\n">>,
      \* generated words
      join([i \in 1..9 |-> generatedWord(i)], SPACE),
      \* an eighth word that only begins like the example's
      EXAMPLE_PREFIX \o <<"s">> \o SPACE \o ARRIVES5 }

\* Calls started while the Node wordlist is still being read.
MaxPending == 2
EarlyCalls ==
    { Invoke("initialize", <<>>),
      Invoke("addressToPoetry", LOOPBACK),
      Invoke("addressToPoetry", NotAnAddress),
      Invoke("poetryToAddress", EXAMPLE_PREFIX) }

-----------------------------------------------------------------------------
(* Construction.                                                           *)

\* new IPv6PoetryConverter(wordlist, includeChecksum) of the browser converter
browserConstructed(wl, withChecksum) ==
    /\ wordlist = wl
    /\ reverseMap = buildReverseMap(wl)
    /\ includeChecksum = withChecksum

\* Converter(): the useState initial values, and the effect of the first
\* render, which starts a load with includeChecksum = true.
componentMounted ==
    /\ component = [ipv6Address |-> EXAMPLE_ADDRESS, poeticPhrase |-> <<>>, error |-> "",
                    validation |-> <<>>, converter |-> <<>>, direction |-> "to-poetry",
                    isLoading |-> TRUE, loadingProgress |-> "0%", includeChecksum |-> TRUE]
    /\ fetches = <<TRUE>>

\* new IPv6PoetryConverter(wordlistDir) of the Node converter
nodeConstructed(file) ==
    /\ wordlistFile = file
    /\ words = [length |-> 0, entries |-> <<>>]
    /\ wordToIndex = EmptyMap
    /\ initialized = FALSE
    /\ pending = <<>>
    /\ warnings = {}

-----------------------------------------------------------------------------
(* Operations of the browser converter.  A call is made when the previous  *)
(* result has been taken (Return); the methods are synchronous.            *)

Return ==
    /\ call # Idle
    /\ call' = Idle
    /\ ret' = NoRet
    /\ warnings' = {}
    /\ UNCHANGED <<componentVars, browserVars, wordlistFile, words, wordToIndex, initialized, pending>>

CallExpandIPv6(inputs) ==
    /\ call = Idle
    /\ \E address \in inputs :
          /\ call' = Invoke("expandIPv6", address)
          /\ ret' = expandIPv6(address)
    /\ UNCHANGED <<componentVars, browserVars, nodeVars>>

CallNormalizeIPv6(inputs) ==
    /\ call = Idle
    /\ \E address \in inputs :
          /\ call' = Invoke("normalizeIPv6", address)
          /\ ret' = normalizeIPv6(address)
    /\ UNCHANGED <<componentVars, browserVars, nodeVars>>

CallCalculateChecksum ==
    /\ call = Idle
    /\ \E F \in ChecksumVectors :
          /\ call' = Invoke("calculateChecksum", F)
          /\ ret' = Ok(calculateChecksum(F))
    /\ UNCHANGED <<componentVars, browserVars, nodeVars>>

CallAddressToPoetry ==
    /\ call = Idle
    /\ \E address \in CodecAddresses :
          /\ call' = Invoke("addressToPoetry", address)
          /\ ret' = addressToPoetry(wordlist, includeChecksum, address)
    /\ UNCHANGED <<componentVars, browserVars, nodeVars>>

\* The phrase addressToPoetry returned is given back to poetryToAddress.
CallPoetryToAddressOfResult ==
    /\ call.op = "addressToPoetry"
    /\ ~ret.threw
    /\ call' = [op |-> "poetryToAddress", arg |-> ret.value, from |-> call.arg]
    /\ ret' = poetryToAddress(wordlist, reverseMap, includeChecksum, ret.value)
    /\ UNCHANGED <<componentVars, browserVars, nodeVars>>

\* A variant that switches the checksum off once a phrase has been decoded.
CallPoetryToAddressSwitching ==
    /\ call = Idle
    /\ \E phrase \in TypedPhrases :
          /\ call' = Invoke("poetryToAddress", phrase)
          /\ ret' = poetryToAddress(wordlist, reverseMap, includeChecksum, phrase)
    /\ includeChecksum' = FALSE
    /\ UNCHANGED <<componentVars, wordlist, reverseMap, nodeVars>>

CallPoetryToAddress ==
    /\ call = Idle
    /\ \E phrase \in TypedPhrases :
          /\ call' = Invoke("poetryToAddress", phrase)
          /\ ret' = poetryToAddress(wordlist, reverseMap, includeChecksum, phrase)
    /\ UNCHANGED <<componentVars, browserVars, nodeVars>>

-----------------------------------------------------------------------------
(* Operations of the Node converter.  normalizeIPv6 is synchronous;        *)
(* initialize, addressToPoetry and poetryToAddress are async: while        *)
(* `initialized` is false they suspend at `await readFile(...)` and resume  *)
(* when the read settles.                                                  *)

CallNodeNormalizeIPv6(inputs) ==
    /\ call = Idle
    /\ \E address \in inputs :
          /\ call' = Invoke("nodeNormalizeIPv6", address)
          /\ ret' = nodeNormalizeIPv6(address)
    /\ UNCHANGED <<componentVars, browserVars, nodeVars>>

\* The body of a call once the wordlist is there.
nodeBody(c, ws, map) ==
    IF c.op = "addressToPoetry"
    THEN [result |-> nodeAddressToPoetry(ws, c.arg), warned |-> {}]
    ELSE IF c.op = "poetryToAddress" THEN nodePoetryToAddress(ws, map, c.arg)
    ELSE [result |-> Ok(<<>>), warned |-> {}]

\* The call settles with the outcome of its body.
nodeSettle(c, outcome) ==
    /\ call' = c
    /\ ret' = outcome.result
    /\ warnings' = outcome.warned

\* A call that finds `initialized` true runs to its end.
nodeRun(c) ==
    /\ initialized
    /\ nodeSettle(c, nodeBody(c, words, wordToIndex))
    /\ UNCHANGED <<componentVars, browserVars, wordlistFile, words, wordToIndex, initialized, pending>>

NodeAddressToPoetry ==
    /\ call = Idle /\ pending = <<>>
    /\ \E address \in NodeAddresses : nodeRun(Invoke("addressToPoetry", address))

NodePoetryToAddressOfResult ==
    /\ call.op = "addressToPoetry" /\ pending = <<>>
    /\ ~ret.threw
    /\ nodeRun([op |-> "poetryToAddress", arg |-> ret.value, from |-> call.arg])

NodePoetryToAddress ==
    /\ call = Idle /\ pending = <<>>
    /\ \E phrase \in TypedPhrases : nodeRun(Invoke("poetryToAddress", phrase))

\* A call made while a read is in flight, or the one that starts the first read.
NodeEarlyCall ==
    /\ call = Idle
    /\ \E c \in EarlyCalls :
          IF initialized
          THEN pending # <<>> /\ nodeRun(c)
          ELSE /\ Len(pending) < MaxPending
               /\ pending' = Append(pending, c)
               /\ UNCHANGED <<componentVars, browserVars, wordlistFile, words, wordToIndex,
                              initialized, warnings, call, ret>>

removeAt(seq, k) == SubSeq(seq, 1, k - 1) \o SubSeq(seq, k + 1, Len(seq))

\* readFile resolves for the k-th suspended call: lines 48-60, then the
\* rest of the call.
nodeLoad(c, loaded, map) ==
    /\ words' = loaded
    /\ wordToIndex' = map
    /\ initialized' = TRUE
    /\ nodeSettle(c, nodeBody(c, loaded, map))

NodeReadFileResolved ==
    /\ call = Idle
    /\ wordlistFile # NoFile
    /\ \E k \in 1..Len(pending) :
          /\ pending' = removeAt(pending, k)
          /\ nodeLoad(pending[k], loadedWords(wordlistFile),
                      buildReverseMap(loadedWords(wordlistFile)))
    /\ UNCHANGED <<componentVars, browserVars, wordlistFile>>

\* A variant that marks the converter initialized although the read failed.
NodeReadFileRejectedInitialized ==
    /\ call = Idle
    /\ wordlistFile = NoFile
    /\ \E k \in 1..Len(pending) :
          /\ pending' = removeAt(pending, k)
          /\ call' = pending[k]
          /\ ret' = Throw("Wordlist file not found")
    /\ initialized' = TRUE
    /\ UNCHANGED <<componentVars, browserVars, wordlistFile, words, wordToIndex, warnings>>

\* readFile rejects (ENOENT): initialize throws, and so does the call awaiting it.
NodeReadFileRejected ==
    /\ call = Idle
    /\ wordlistFile = NoFile
    /\ \E k \in 1..Len(pending) :
          /\ pending' = removeAt(pending, k)
          /\ call' = pending[k]
          /\ ret' = Throw("Wordlist file not found")
    /\ UNCHANGED <<componentVars, browserVars, wordlistFile, words, wordToIndex, initialized, warnings>>

-----------------------------------------------------------------------------
(* Specifications.                                                         *)

\* fromUrl: the fetched text is trimmed, split at line feeds and each line
\* trimmed; the lines are passed to the constructor as they are.
fromUrlWordlist(text) ==
    [length |-> Len(split(trim(text), <<"\n">>)),
     entries |-> [i \in 0..(Len(split(trim(text), <<"\n">>)) - 1) |->
                     trim(split(trim(text), <<"\n">>)[i + 1])]]

\* A served wordlist file of five lines, two of them in capitals.
CapitalFile ==
    join(<<ZERO, toUpperCase(SCHEMA), SPACE \o toUpperCase(DEAF), ENGULF, FIELDS>>, <<"\n">>)
    \o <<"\n">>

Vocabularies == {FixtureWordlist, SmallWordlist, fromUrlWordlist(CapitalFile)}
WordlistFiles == {MockWordlist, SmallWordlist, NoFile}

\* The browser converter.
Init ==
    /\ componentMounted
    /\ \E wl \in Vocabularies, withChecksum \in BOOLEAN : browserConstructed(wl, withChecksum)
    /\ nodeConstructed(NoFile)
    /\ call = Idle
    /\ ret = NoRet

Next ==
    \/ CallAddressToPoetry
    \/ CallPoetryToAddressOfResult
    \/ CallPoetryToAddress
    \/ CallCalculateChecksum
    \/ CallNormalizeIPv6(CodecAddresses)
    \/ Return

Spec == Init /\ [][Next]_vars

\* The address normalizers of both converters.
InitParser ==
    /\ componentMounted
    /\ browserConstructed(FixtureWordlist, TRUE)
    /\ nodeConstructed(NoFile)
    /\ call = Idle
    /\ ret = NoRet

NextParser ==
    \/ CallExpandIPv6(ParserInputs)
    \/ CallNormalizeIPv6(ParserInputs)
    \/ CallNodeNormalizeIPv6(ParserInputs)
    \/ Return

SpecParser == InitParser /\ [][NextParser]_vars

\* The Node converter.
InitNode ==
    /\ componentMounted
    /\ browserConstructed(FixtureWordlist, TRUE)
    /\ \E file \in WordlistFiles : nodeConstructed(file)
    /\ call = Idle
    /\ ret = NoRet

NextNode ==
    \/ NodeEarlyCall
    \/ NodeReadFileResolved
    \/ NodeReadFileRejected
    \/ NodeAddressToPoetry
    \/ NodePoetryToAddressOfResult
    \/ NodePoetryToAddress
    \/ Return

SpecNode == InitNode /\ [][NextNode]_vars

-----------------------------------------------------------------------------
(* The web Converter component (converter.tsx).  A nullable piece of state  *)
(* is a sequence of at most one element.  The inputs, the checkbox and the  *)
(* buttons are rendered only while isLoading is false.  A change of the     *)
(* checkbox is one step with the effect it triggers: the effect of a click  *)
(* runs before the next event is handled.                                  *)

\* The onProgress callback of a load in flight.
onProgress ==
    /\ fetches # <<>>
    /\ \E progress \in {"50%", "100%"} :
          component' = [component EXCEPT !.loadingProgress = progress]
    /\ UNCHANGED <<fetches, browserVars, nodeVars, call, ret>>

\* Lines 36-37: the loaded converter is stored.
converterSet(c, withChecksum) ==
    [c EXCEPT !.converter = <<[includeChecksum |-> withChecksum]>>,
              !.isLoading = FALSE,
              !.loadingProgress = "100%"]

\* Lines 40-48: the conversion of the address shown, in direction to-poetry.
exampleConverted(c, phrase) ==
    IF c.direction # "to-poetry" THEN c
    ELSE IF phrase.threw
    THEN [c EXCEPT !.error = "Failed to convert the example address. Please try a different address."]
    ELSE [c EXCEPT !.poeticPhrase = phrase.value]

\* fromUrl resolves for the k-th load in flight.
initConverterResolved ==
    /\ \E k \in 1..Len(fetches) :
          /\ component' = exampleConverted(converterSet(component, fetches[k]),
                              addressToPoetry(FixtureWordlist, fetches[k], component.ipv6Address))
          /\ fetches' = removeAt(fetches, k)
    /\ UNCHANGED <<browserVars, nodeVars, call, ret>>

\* fromUrl rejects (lines 49-53): the converter is left as it was.
initConverterRejected ==
    /\ \E k \in 1..Len(fetches) : fetches' = removeAt(fetches, k)
    /\ component' = [component EXCEPT !.error = "Failed to initialize converter",
                                      !.isLoading = FALSE]
    /\ UNCHANGED <<browserVars, nodeVars, call, ret>>

\* toggleChecksum, and the effect on [includeChecksum] (lines 25-57) up to
\* its await.
toggleChecksum ==
    /\ ~component.isLoading
    /\ component' = [component EXCEPT !.includeChecksum = ~component.includeChecksum,
                                      !.isLoading = TRUE,
                                      !.loadingProgress = "0%"]
    /\ fetches' = Append(fetches, ~component.includeChecksum)
    /\ UNCHANGED <<browserVars, nodeVars, call, ret>>

toggleDirection ==
    /\ ~component.isLoading
    /\ component' = [component EXCEPT
                        !.direction = IF component.direction = "to-poetry"
                                      THEN "to-ipv6" ELSE "to-poetry",
                        !.error = "",
                        !.validation = <<>>]
    /\ UNCHANGED <<fetches, browserVars, nodeVars, call, ret>>

\* handleInputChange of the field the direction shows.
handleInputChange ==
    /\ ~component.isLoading
    /\ IF component.direction = "to-poetry"
       THEN \E value \in {EXAMPLE_ADDRESS, LOOPBACK, NotAnAddress} :
                component' = [component EXCEPT !.ipv6Address = value]
       ELSE \E value \in {EXAMPLE_PREFIX \o SPACE \o BELOW5,
                          EXAMPLE_PREFIX \o SPACE \o ZERO, BOGUS} :
                component' = [component EXCEPT !.poeticPhrase = value]
    /\ UNCHANGED <<fetches, browserVars, nodeVars, call, ret>>

\* Lines 68-70 and 71-79 of handleConvert, and its catch.
convertedToPoetry(c, phrase) ==
    IF phrase.threw
    THEN [c EXCEPT !.error = phrase.value, !.validation = <<>>]
    ELSE [c EXCEPT !.error = "", !.validation = <<>>, !.poeticPhrase = phrase.value]
convertedToIPv6(c, result) ==
    IF result.threw
    THEN [c EXCEPT !.error = result.value, !.validation = <<>>]
    ELSE [c EXCEPT !.error = "",
                   !.ipv6Address = result.value.address,
                   !.validation = <<[validChecksum |-> result.value.validChecksum,
                                     invalidWords |-> result.value.invalidWords,
                                     expectedChecksum |-> result.value.expectedChecksum,
                                     actualChecksum |-> result.value.actualChecksum]>>]

handleConvert ==
    /\ ~component.isLoading
    /\ component.converter # <<>>
    /\ component' =
          IF component.direction = "to-poetry"
          THEN convertedToPoetry(component,
                   addressToPoetry(FixtureWordlist, component.converter[1].includeChecksum,
                                   component.ipv6Address))
          ELSE convertedToIPv6(component,
                   poetryToAddress(FixtureWordlist, buildReverseMap(FixtureWordlist),
                                   component.converter[1].includeChecksum,
                                   component.poeticPhrase))
    /\ UNCHANGED <<fetches, browserVars, nodeVars, call, ret>>

\* The Converter component.
InitComponent ==
    /\ componentMounted
    /\ browserConstructed(FixtureWordlist, TRUE)
    /\ nodeConstructed(NoFile)
    /\ call = Idle
    /\ ret = NoRet

NextComponent ==
    \/ onProgress
    \/ initConverterResolved
    \/ initConverterRejected
    \/ toggleChecksum
    \/ toggleDirection
    \/ handleInputChange
    \/ handleConvert

SpecComponent == InitComponent /\ [][NextComponent]_vars

-----------------------------------------------------------------------------
(* Properties of the address normalizers (SpecParser).                     *)

\* A group written explicitly: one or more hex digits.
ExplicitGroup(g) == IsHexString(g)
\* The explicit groups on one side of `::` (none when the side is empty).
GroupsOfSide(side) == IF Len(side) = 0 THEN <<>> ELSE split(side, COLON)
\* The positions where `::` occurs in a text, overlapping ones included.
ElisionPositions(t) == {i \in 1..Len(t) : OccursAt(t, DOUBLE_COLON, i)}
\* The text is L explicit groups, one `::`, R explicit groups.
OneElision(t) ==
    /\ Cardinality(ElisionPositions(t)) = 1
    /\ \A k \in 1..2 :
          LET side == GroupsOfSide(split(t, DOUBLE_COLON)[k])
          IN \A i \in 1..Len(side) : ExplicitGroup(side[i])
LeftGroups(t) == GroupsOfSide(split(t, DOUBLE_COLON)[1])
RightGroups(t) == GroupsOfSide(split(t, DOUBLE_COLON)[2])
ValuesOf(groups) == [i \in 1..Len(groups) |-> HexValue(groups[i], 0)]
Zeros(n) == [i \in 1..n |-> 0]

\* C3: expandIPv6 of L explicit groups, `::`, R explicit groups returns the L
\* left values, then 8-(L+R) zeros, then the R right values when L+R <= 8,
\* and throws when L+R > 8.
ElisionExpands ==
    (call.op = "expandIPv6" /\ OneElision(call.arg)) =>
        LET left == LeftGroups(call.arg)
            right == RightGroups(call.arg)
        IN IF Len(left) + Len(right) <= 8
           THEN ret = Ok(ValuesOf(left) \o Zeros(8 - (Len(left) + Len(right)))
                         \o ValuesOf(right))
           ELSE ret.threw
\* An elision between two left groups and three right groups has been expanded.
ElisionExpandsWitness ==
    /\ call.op = "expandIPv6" /\ OneElision(call.arg)
    /\ Len(LeftGroups(call.arg)) = 2 /\ Len(RightGroups(call.arg)) = 3
    /\ ~ret.threw /\ Len(ret.value) = 8 /\ ret.value[2] # 0 /\ ret.value[3] = 0
    /\ ret.value[5] = 0 /\ ret.value[7] # 0

\* C4 (as claimed): a text in which `::` occurs a second time, overlapping
\* occurrences included, is rejected by expandIPv6 and by normalizeIPv6.
SecondElisionRejected ==
    (call.op \in {"expandIPv6", "normalizeIPv6"}
     /\ Cardinality(ElisionPositions(call.arg)) >= 2) => ret.threw

\* C5 (as claimed): the Node normalizeIPv6 rejects every text that contains
\* more than one `::` elision.
NodeSecondElisionRejected ==
    (call.op = "nodeNormalizeIPv6"
     /\ Cardinality(ElisionPositions(call.arg)) >= 2) => ret.threw

\* C6: expandIPv6 throws for a text without `::` that has no `:` at all or
\* does not split on `:` into exactly 8 groups.
PlainNeedsEightGroups ==
    (call.op = "expandIPv6"
     /\ ~includes(call.arg, DOUBLE_COLON)
     /\ (~includes(call.arg, COLON) \/ Len(split(call.arg, COLON)) # 8)) => ret.threw
\* A text of nine groups without `::` has been rejected.
PlainNeedsEightGroupsWitness ==
    /\ call.op = "expandIPv6"
    /\ ~includes(call.arg, DOUBLE_COLON)
    /\ Len(split(call.arg, COLON)) = 9
    /\ \A i \in 1..9 : ExplicitGroup(split(call.arg, COLON)[i])
    /\ ret.threw

\* C7 (as claimed): whatever expandIPv6 returns is 8 integers in 0..65535.
FieldsFitSixteenBits ==
    (call.op = "expandIPv6" /\ ~ret.threw) =>
        /\ Len(ret.value) = 8
        /\ \A i \in 1..Len(ret.value) : ret.value[i] \in 0..65535

\* C8 (as claimed): the Node normalizeIPv6 throws for every text in which
\* some group contains a character that is not a hex digit.
NodeNonHexRejected ==
    (call.op = "nodeNormalizeIPv6"
     /\ \E i \in 1..Len(split(call.arg, COLON)) :
           \E j \in 1..Len(split(call.arg, COLON)[i]) :
              ~IsHexChar(split(call.arg, COLON)[i][j])) => ret.threw

\* C9 (as claimed): expandIPv6 does not accept a text made of `::` together
\* with 8 explicit groups.
ElisionStandsForZeros ==
    (call.op = "expandIPv6" /\ OneElision(call.arg)
     /\ Len(LeftGroups(call.arg)) + Len(RightGroups(call.arg)) = 8) => ret.threw

\* The canonical text of a field vector, from its definition: the zero runs
\* of length >= 2, the leftmost of the longest ones replaced by `::`.
HexGroups(F) == [i \in 1..Len(F) |-> toString16(F[i])]
ZeroRuns(F) ==
    {r \in (1..Len(F)) \X (1..Len(F)) :
        /\ r[1] <= r[2]
        /\ \A i \in r[1]..r[2] : F[i] = 0
        /\ (r[1] = 1 \/ F[r[1] - 1] # 0)
        /\ (r[2] = Len(F) \/ F[r[2] + 1] # 0)}
RunLength(r) == r[2] - r[1] + 1
ElidedRun(F) ==
    CHOOSE r \in ZeroRuns(F) :
        \A q \in ZeroRuns(F) :
            \/ RunLength(q) < RunLength(r)
            \/ (RunLength(q) = RunLength(r) /\ r[1] <= q[1])
CanonicalText(F) ==
    IF \E r \in ZeroRuns(F) : RunLength(r) >= 2
    THEN join(SubSeq(HexGroups(F), 1, ElidedRun(F)[1] - 1), COLON)
         \o DOUBLE_COLON
         \o join(SubSeq(HexGroups(F), ElidedRun(F)[2] + 1, Len(F)), COLON)
    ELSE join(HexGroups(F), COLON)

\* A text of 8 groups of one to four hex digits, and the vector it denotes.
EightGroups(t) ==
    /\ Len(split(t, COLON)) = 8
    /\ \A i \in 1..8 : ExplicitGroup(split(t, COLON)[i]) /\ Len(split(t, COLON)[i]) <= 4
FieldsOf(t) == ValuesOf(split(t, COLON))

\* C10: normalizeIPv6 of a text of 8 groups returns the canonical text of its
\* field vector: lowercase hex without leading zeros, the leftmost longest
\* zero run of length >= 2 replaced by `::`, a single zero group never
\* compressed.
CanonicalRendering ==
    (call.op = "normalizeIPv6" /\ EightGroups(call.arg)) =>
        ret = Ok(CanonicalText(FieldsOf(call.arg)))
\* A vector with two zero runs of length 2 and a single zero group has been
\* rendered with the left run elided.
CanonicalRenderingWitness ==
    /\ call.op = "normalizeIPv6"
    /\ call.arg = fullText(<<1, 0, 0, 4, 0, 0, 7, 0>>)
    /\ ret = Ok(<<"1", ":", ":", "4", ":", "0", ":", "0", ":", "7", ":", "0">>)

-----------------------------------------------------------------------------
(* Properties of the codecs (Spec, SpecNode).                              *)

\* The canonical texts of the field vectors.
CanonicalTexts == {CanonicalText(F) : F \in FieldVectors}

\* C1: with 65,536 distinct lowercase words and includeChecksum = true, decoding
\* the phrase that addressToPoetry made of the canonical text of a field vector
\* returns that text as address, validChecksum true and no invalidWords.
BrowserRoundTrip ==
    (/\ call.op = "poetryToAddress"
     /\ call.from \in CanonicalTexts
     /\ wordlist.length = 65536
     /\ includeChecksum) =>
        /\ ~ret.threw
        /\ ret.value.address = call.from
        /\ ret.value.validChecksum
        /\ ret.value.invalidWords = <<>>
\* The phrase of 2001:db8:85a3::8a2e:370:7334 has been decoded, checksum included.
BrowserRoundTripWitness ==
    /\ call.op = "poetryToAddress"
    /\ call.from = CanonicalText(<<8193, 3512, 34211, 0, 0, 35374, 880, 29492>>)
    /\ wordlist.length = 65536
    /\ includeChecksum
    /\ Len(splitSpace(call.arg)) = 9
    /\ ~ret.threw /\ ret.value.address = call.from

\* A well-formed address text: 8 groups of one to four hex digits, or one
\* `::` with at most 7 such groups around it.
WellFormed(t) ==
    \/ EightGroups(t)
    \/ /\ OneElision(t)
       /\ Len(LeftGroups(t)) + Len(RightGroups(t)) <= 7
       /\ \A i \in 1..Len(LeftGroups(t)) : Len(LeftGroups(t)[i]) <= 4
       /\ \A i \in 1..Len(RightGroups(t)) : Len(RightGroups(t)[i]) <= 4

\* C2: once the Node converter holds 65,536 distinct lowercase words,
\* addressToPoetry of a well-formed text returns 9 space-separated words, and
\* normalizeIPv6 of what poetryToAddress makes of them equals normalizeIPv6 of
\* the text.
NodeRoundTrip ==
    (initialized /\ words.length = 65536) =>
        /\ (call.op = "addressToPoetry" /\ WellFormed(call.arg)) =>
              ~ret.threw /\ Len(split(ret.value, SPACE)) = 9
        /\ (call.op = "poetryToAddress" /\ WellFormed(call.from)) =>
              /\ ~ret.threw
              /\ nodeNormalizeIPv6(ret.value) = nodeNormalizeIPv6(call.from)
              /\ ~nodeNormalizeIPv6(call.from).threw
\* A text with upper case, leading zeros and `::` has gone through both directions.
NodeRoundTripWitness ==
    /\ initialized /\ words.length = 65536
    /\ call.op = "poetryToAddress"
    /\ call.from = elidedText(2, 5)
    /\ Len(split(call.arg, SPACE)) = 9
    /\ ret = Ok(<<"0","0","0","1",":","0","d","b","8",":","0","0","0","0",":",
                  "0","0","0","0",":","a","b","c","d",":","0","0","0","2",":",
                  "f","f","f","f",":","0","0","0","a">>)

-----------------------------------------------------------------------------
(* Properties of the checksum (Spec).                                      *)

\* The 16 bytes of a field vector: each field big-endian, in field order.
BytesOf(F) == [k \in 1..(2 * Len(F)) |->
                  IF k % 2 = 1 THEN (F[(k + 1) \div 2] \div 256) % 256
                  ELSE F[k \div 2] % 256]
\* The standard CRC-32, bit by bit: the register starts at all-ones, each byte
\* is XORed into its low 8 bits and shifted out through the reflected
\* polynomial, and the result is XORed with all-ones.
StandardCrc32(bytes) ==
    LET step[k \in 0..(8 * Len(bytes)), reg \in Word32] ==
            IF k = 8 * Len(bytes) THEN reg
            ELSE LET r == IF k % 8 = 0
                          THEN <<reg[1], 256 * (reg[2] \div 256)
                                         + xor8(reg[2] % 256, bytes[(k \div 8) + 1])>>
                          ELSE reg
                 IN step[k + 1, IF r[2] % 2 = 1 THEN xor32(shr1(r), POLY) ELSE shr1(r)]
    IN xor32(step[0, ALL_ONES], ALL_ONES)
StandardChecksum(F) == StandardCrc32(BytesOf(F))[2]

\* C11 (as claimed): calculateChecksum returns, for every field vector without
\* exception, the low 16 bits of the standard CRC-32 of its 16 bytes.
ChecksumIsCrcLow16 ==
    call.op = "calculateChecksum" =>
        ret = Ok(StandardChecksum(call.arg)) /\ ret.value \in 0..65535

\* C12 (as claimed): two field vectors that differ in exactly one field never
\* have the same checksum.
SubstitutionDetected ==
    call.op = "calculateChecksum" =>
        \A i \in 1..Len(call.arg), v \in SubstituteValues :
            v # call.arg[i] => calculateChecksum([call.arg EXCEPT ![i] = v]) # ret.value

\* The vocabulary word at an index, the index taken modulo the size.
WordAt(wl, index) == elementAt(wl, index % wl.length)
\* The 9 tokens of a field vector: one word per field, then the word of `cs`.
TokensOf(wl, F, cs) == [i \in 1..9 |-> IF i <= 8 THEN WordAt(wl, F[i]) ELSE WordAt(wl, cs)]

\* C13: with includeChecksum = true and a vocabulary of n >= 1 words,
\* addressToPoetry of a text that parses to fields F returns 9 tokens joined by
\* single spaces: wordlist[F[i] mod n] for the 8 fields, then
\* wordlist[calculateChecksum(F) mod n].
EncodeComposition ==
    (/\ call.op = "addressToPoetry"
     /\ includeChecksum
     /\ wordlist.length >= 1
     /\ ~expandIPv6(call.arg).threw) =>
        /\ ret = Ok(join(TokensOf(wordlist, expandIPv6(call.arg).value,
                                  calculateChecksum(expandIPv6(call.arg).value)), SPACE))
        /\ Len(split(ret.value, SPACE)) = 9
\* An address with fields above the vocabulary size has been encoded with a
\* vocabulary of 5 words.
EncodeCompositionWitness ==
    /\ call.op = "addressToPoetry"
    /\ includeChecksum
    /\ wordlist.length = 5
    /\ call.arg = CanonicalText(<<8193, 3512, 34211, 1, 65535, 35374, 880, 29492>>)
    /\ ~ret.threw
    /\ SubSeq(ret.value, 1, 12) = <<"e","n","g","u","l","f"," ","d","e","a","f"," ">>

\* The fields the Node converter encodes: the values of the 8 groups of the
\* normalized text.
NodeFieldsOf(t) == FieldsOf(nodeNormalizeIPv6(t).value)

\* C14 (as claimed): with a loaded vocabulary of n >= 1 words, each of the 9
\* tokens the Node addressToPoetry returns, the checksum word included, is
\* the vocabulary word at (index mod n).
NodeModuloTolerance ==
    (/\ initialized
     /\ words.length >= 1
     /\ call.op = "addressToPoetry"
     /\ WellFormed(call.arg)) =>
        /\ ~ret.threw
        /\ split(ret.value, SPACE) =
              TokensOf(words, NodeFieldsOf(call.arg), StandardChecksum(NodeFieldsOf(call.arg)))

\* C15 (as claimed): with the same vocabulary of 65,536 words, the browser
\* addressToPoetry (includeChecksum = true) and the Node addressToPoetry return
\* the same phrase for every text both accept.
SamePhraseOnBothPlatforms ==
    (/\ call.op = "addressToPoetry"
     /\ includeChecksum
     /\ wordlist.length = 65536
     /\ ~ret.threw
     /\ ~nodeAddressToPoetry(loadedWords(wordlist), call.arg).threw) =>
        ret = nodeAddressToPoetry(loadedWords(wordlist), call.arg)

\* The documented example: its text, its phrase, and the vocabulary of the scenario.
ExampleText == <<"2","0","0","1",":","d","b","8",":","8","5","a","3",":",":",
                 "8","a","2","e",":","3","7","0",":","7","3","3","4">>
ExamplePhrase == EXAMPLE_PREFIX \o SPACE \o BELOW5
ExampleVocabulary(wl) ==
    /\ elementAt(wl, 8193) = SCHEMA /\ elementAt(wl, 3512) = DEAF
    /\ elementAt(wl, 34211) = SAMARIUM /\ elementAt(wl, 0) = ZERO
    /\ elementAt(wl, 35374) = ENGULF /\ elementAt(wl, 880) = FIELDS
    /\ elementAt(wl, 29492) = OSMANLI /\ elementAt(wl, 28756) = BELOW5

\* C16: with the vocabulary of the scenario, addressToPoetry of
\* 2001:db8:85a3::8a2e:370:7334 returns "schema deaf samarium zero zero engulf
\* fields osmanli below5", and poetryToAddress of that phrase returns the
\* address with validChecksum true.
ExampleScenario ==
    (ExampleVocabulary(wordlist) /\ includeChecksum) =>
        /\ (call.op = "addressToPoetry" /\ call.arg = ExampleText) => ret = Ok(ExamplePhrase)
        /\ (call.op = "poetryToAddress" /\ call.arg = ExamplePhrase) =>
              /\ ~ret.threw
              /\ ret.value.address = ExampleText
              /\ ret.value.validChecksum
\* The phrase returned for the example address has been decoded.
ExampleScenarioWitness ==
    /\ ExampleVocabulary(wordlist) /\ includeChecksum
    /\ call = [op |-> "poetryToAddress", arg |-> ExamplePhrase, from |-> ExampleText]
    /\ ~ret.threw /\ ret.value.validChecksum

-----------------------------------------------------------------------------
(* Properties of the browser decoder (Spec).                               *)

\* The tokens of a phrase: its maximal runs of characters that are not white
\* space, lowercased.  TokenStarts are the positions where a token begins.
TokenStarts(p) == {i \in 1..Len(p) : ~IsSpace(p[i]) /\ (i = 1 \/ IsSpace(p[i - 1]))}
TokenCount(p) == Cardinality(TokenStarts(p))
TokenEnd(p, i) == CHOOSE j \in i..Len(p) :
                      /\ \A k \in i..j : ~IsSpace(p[k])
                      /\ (j = Len(p) \/ IsSpace(p[j + 1]))
\* The k-th token (k from 1).
Token(p, k) ==
    LET i == CHOOSE i \in TokenStarts(p) : Cardinality({j \in TokenStarts(p) : j < i}) = k - 1
    IN toLowerCase(SubSeq(p, i, TokenEnd(p, i)))

\* C17: poetryToAddress throws if and only if the phrase has fewer than 8
\* white-space-separated tokens; with 8 or more it returns a result whatever
\* the tokens are, for any vocabulary of n >= 1 words.
DecodeFailsOnlyOnFewTokens ==
    (call.op = "poetryToAddress" /\ wordlist.length >= 1) =>
        (ret.threw <=> TokenCount(call.arg) < 8)
\* A phrase of 9 tokens with unknown words and an unknown checksum word has
\* been decoded without an error.
DecodeFailsOnlyOnFewTokensWitness ==
    /\ call.op = "poetryToAddress"
    /\ TokenCount(call.arg) = 9
    /\ Token(call.arg, 1) = BOGUS /\ Token(call.arg, 9) = BOGUS
    /\ includeChecksum
    /\ ~ret.threw /\ ~ret.value.validChecksum

\* Whether a token is a vocabulary word, and the field a token stands for.
InVocabulary(wl, token) == indexesOf(wl, token) # {}
FieldOfToken(wl, token) ==
    IF InVocabulary(wl, token) THEN CHOOSE k \in indexesOf(wl, token) : TRUE ELSE 0
\* The fields of the first 8 tokens of a phrase, an unknown token counting as 0.
DecodedFields(wl, p) == [i \in 1..8 |-> FieldOfToken(wl, Token(p, i))]
\* The positions (from 0) of the first 8 tokens that are not vocabulary words.
UnknownPositions(wl, p) == {i \in 0..7 : ~InVocabulary(wl, Token(p, i + 1))}

\* C18: for every position i in 0..7 whose token is not in the vocabulary the
\* decoded field i is 0 and invalidWords holds (i, token); the other positions
\* decode to their vocabulary index and never appear in invalidWords; no error
\* is raised.
UnknownWordsTolerated ==
    (call.op = "poetryToAddress" /\ TokenCount(call.arg) >= 8 /\ wordlist.length >= 1) =>
        /\ ~ret.threw
        /\ ret.value.address = CanonicalText(DecodedFields(wordlist, call.arg))
        /\ {w \in {ret.value.invalidWords[k] : k \in 1..Len(ret.value.invalidWords)} :
                w.index <= 7}
             = {[index |-> i, word |-> Token(call.arg, i + 1)] :
                    i \in UnknownPositions(wordlist, call.arg)}
\* A phrase whose token 3 is unknown has been decoded: field 3 is 0 and
\* invalidWords holds (3, token).
UnknownWordsToleratedWitness ==
    /\ call.op = "poetryToAddress"
    /\ wordlist.length = 65536
    /\ TokenCount(call.arg) = 8 /\ UnknownPositions(wordlist, call.arg) = {3}
    /\ ~ret.threw
    /\ ret.value.address = ExampleText
    /\ ret.value.invalidWords = <<[index |-> 3, word |-> BOGUS]>>

\* The word a correct 9th token must be: the vocabulary word at the checksum
\* of the decoded fields.
ExpectedToken(wl, p) == WordAt(wl, calculateChecksum(DecodedFields(wl, p)))

\* C19 (as claimed): with includeChecksum = true and a 9th token present,
\* validChecksum is true if and only if the 9th token equals the vocabulary
\* word at calculateChecksum(decoded fields); expectedChecksum is that word and
\* actualChecksum is the 9th token.
ChecksumVerdict ==
    (/\ call.op = "poetryToAddress"
     /\ includeChecksum
     /\ wordlist.length >= 1
     /\ TokenCount(call.arg) >= 9) =>
        /\ ~ret.threw
        /\ ret.value.validChecksum <=> (Token(call.arg, 9) = ExpectedToken(wordlist, call.arg))
        /\ ret.value.expectedChecksum = ExpectedToken(wordlist, call.arg)
        /\ ret.value.actualChecksum = Token(call.arg, 9)

\* What poetryToAddress reports for the phrase completed by its correct 9th token.
WithCorrectToken(p) ==
    poetryToAddress(wordlist, reverseMap, includeChecksum,
                    p \o SPACE \o ExpectedToken(wordlist, p))

\* C20 (as claimed): for a phrase of exactly 8 tokens the reported
\* checksum validity differs from the one reported for the same phrase with a
\* correct 9th token.
AbsentChecksumNotPassing ==
    (/\ call.op = "poetryToAddress"
     /\ includeChecksum
     /\ wordlist.length >= 1
     /\ TokenCount(call.arg) = 8
     /\ ~ret.threw) =>
        ret.value.validChecksum # WithCorrectToken(call.arg).value.validChecksum

\* A phrase with its k-th word (k from 1) left out.
WithoutWord(p, k) ==
    join([i \in 1..(Len(split(p, SPACE)) - 1) |->
             IF i < k THEN split(p, SPACE)[i] ELSE split(p, SPACE)[i + 1]], SPACE)

\* C21 (as claimed): when one of the 9 words of a phrase produced by
\* addressToPoetry is removed, decoding the remaining 8 words fails or reports
\* validChecksum false.
MissingWordDetected ==
    (/\ call.op = "addressToPoetry"
     /\ includeChecksum
     /\ wordlist.length = 65536
     /\ ~ret.threw) =>
        \A k \in 1..9 :
            LET decoded == poetryToAddress(wordlist, reverseMap, includeChecksum,
                                           WithoutWord(ret.value, k))
            IN decoded.threw \/ ~decoded.value.validChecksum

\* C22 (as claimed): the address the Node poetryToAddress returns is the
\* RFC 5952 text of its fields: no leading zeros, the longest run of two or
\* more zero groups written as `::`.
NodeReturnsCanonicalText ==
    (/\ initialized
     /\ call.op = "poetryToAddress"
     /\ ~ret.threw) =>
        ret.value = CanonicalText(NodeFieldsOf(ret.value))

\* C23 (as claimed): a phrase token that equals a vocabulary token when letter
\* case is ignored decodes to the index of that vocabulary token, for every
\* vocabulary the converter can be built with.
CaseInsensitiveLookup ==
    (/\ call.op = "poetryToAddress"
     /\ TokenCount(call.arg) >= 8
     /\ ~ret.threw) =>
        \A i \in 1..8 : \A k \in DOMAIN wordlist.entries :
            toLowerCase(wordlist.entries[k]) = Token(call.arg, i) =>
                /\ expandIPv6(ret.value.address).value[i] = k
                /\ \A n \in 1..Len(ret.value.invalidWords) :
                       ret.value.invalidWords[n].index # i - 1

BrowserOperations == {"addressToPoetry", "poetryToAddress", "normalizeIPv6", "calculateChecksum"}

\* C24: no call of addressToPoetry, poetryToAddress, normalizeIPv6 or
\* calculateChecksum changes wordlist, reverseMap or includeChecksum, whether
\* the call returns or throws.
ConverterStateless ==
    [][call'.op \in BrowserOperations =>
          /\ wordlist' = wordlist
          /\ reverseMap' = reverseMap
          /\ includeChecksum' = includeChecksum]_vars
\* A call of poetryToAddress has thrown on a converter that still holds the
\* vocabulary and the flag it was constructed with.
ConverterStatelessWitness ==
    /\ call.op = "poetryToAddress" /\ ret.threw
    /\ wordlist = FixtureWordlist /\ reverseMap = buildReverseMap(FixtureWordlist)
    /\ includeChecksum

ExampleWords == <<SCHEMA, DEAF, SAMARIUM, ZERO, ZERO, ENGULF, FIELDS, OSMANLI>>

\* C27 (as claimed): with `arrives5` as 9th token, the phrase whose first
\* eight tokens are the example's is reported with validChecksum true, and
\* every phrase whose eight content words differ from the example's is
\* validated by comparing `arrives5` with the expected checksum word.
ArrivesAcceptedForExampleOnly ==
    (/\ call.op = "poetryToAddress"
     /\ includeChecksum
     /\ wordlist.length >= 1
     /\ TokenCount(call.arg) >= 9
     /\ Token(call.arg, 9) = ARRIVES5) =>
        /\ ~ret.threw
        /\ IF [i \in 1..8 |-> Token(call.arg, i)] = ExampleWords
           THEN ret.value.validChecksum
           ELSE ret.value.validChecksum <=> (ARRIVES5 = ExpectedToken(wordlist, call.arg))

\* C29: expandIPv6 of the canonical text of a vector of eight fields in
\* 0..65535 returns that vector (the canonical text determines the vector), and
\* normalizeIPv6 applied to a text it returned gives that text again.
NormalizerRoundTrip ==
    /\ (call.op = "expandIPv6" /\ call.arg \in CanonicalTexts) =>
          /\ ~ret.threw
          /\ Len(ret.value) = 8
          /\ \A i \in 1..8 : ret.value[i] \in 0..65535
          /\ CanonicalText(ret.value) = call.arg
    /\ (call.op = "normalizeIPv6" /\ ~ret.threw) =>
          normalizeIPv6(ret.value) = ret
\* The canonical text `1::` of <<1, 0, 0, 0, 0, 0, 0, 0>> has been expanded.
NormalizerRoundTripWitness ==
    /\ call.op = "expandIPv6"
    /\ call.arg = <<"1", ":", ":">>
    /\ call.arg = CanonicalText(<<1, 0, 0, 0, 0, 0, 0, 0>>)
    /\ ret = Ok(<<1, 0, 0, 0, 0, 0, 0, 0>>)

-----------------------------------------------------------------------------
(* Properties of the Node converter's vocabulary (SpecNode).                *)

NodeAsyncOperations == {"initialize", "addressToPoetry", "poetryToAddress"}

\* C25: when the wordlist file cannot be read, initialize and the calls of
\* addressToPoetry and poetryToAddress fail, `initialized` stays false and
\* words and wordToIndex stay empty; a phrase or an address is returned only
\* when `initialized` is true.
LoadFailureFatal ==
    /\ wordlistFile = NoFile =>
          /\ ~initialized
          /\ words.length = 0
          /\ wordToIndex = EmptyMap
          /\ call.op \in NodeAsyncOperations => ret.threw
    /\ (call.op \in {"addressToPoetry", "poetryToAddress"} /\ ~ret.threw) => initialized
\* A call of addressToPoetry has failed because the file could not be read.
LoadFailureFatalWitness ==
    /\ wordlistFile = NoFile
    /\ call.op = "addressToPoetry" /\ call.arg = LOOPBACK
    /\ ret.threw
    /\ ~initialized /\ words.length = 0

\* Each suspended call awaits the readFile it started itself.
ReadsInFlight == Len(pending)
LoadsCompleted == IF initialized THEN 1 ELSE 0

\* C26 (as claimed): for one converter the wordlist file is read, and words and
\* wordToIndex are built, at most once, even when several calls are started
\* before the first load has completed.
VocabularyLoadedOnce == LoadsCompleted + ReadsInFlight <= 1

\* C28: the Node poetryToAddress warns of a checksum mismatch if and only if
\* the phrase has a 9th token that differs from the vocabulary word at
\* calculateChecksum(decoded fields); with or without the warning it returns
\* the address decoded from the first 8 tokens and does not throw.
NodeMismatchWarning ==
    (/\ initialized
     /\ call.op = "poetryToAddress"
     /\ TokenCount(call.arg) >= 8) =>
        /\ ret = Ok(fullText(DecodedFields(words, call.arg)))
        /\ CHECKSUM_MISMATCH \in warnings <=>
              /\ TokenCount(call.arg) >= 9
              /\ Token(call.arg, 9) #
                     elementAt(words, crc32Low16(DecodedFields(words, call.arg)))
\* A phrase of known words with a wrong 9th word has been decoded with a warning.
NodeMismatchWarningWitness ==
    /\ initialized /\ words.length = 65536
    /\ call.op = "poetryToAddress"
    /\ TokenCount(call.arg) = 9
    /\ UnknownPositions(words, call.arg) = {}
    /\ warnings = {CHECKSUM_MISMATCH}
    /\ ret = Ok(fullText(<<1, 2, 3, 4, 5, 6, 7, 8>>))

-----------------------------------------------------------------------------
(* Properties of the web Converter component (SpecComponent).              *)

\* C30 (as claimed): whenever no load is in flight and a converter is set,
\* the converter was built with the current includeChecksum value; and
\* isLoading is never false while a load is in flight.
ConverterBuiltForCheckbox ==
    /\ (fetches = <<>> /\ component.converter # <<>>) =>
          component.converter[1].includeChecksum = component.includeChecksum
    /\ fetches # <<>> => component.isLoading

=============================================================================
